---------------------------- MODULE Spec2Model ----------------------------
(***************************************************************************)
(* A model of PriceTracker-Pro (Smart Price Predictor).                    *)
(*                                                                         *)
(* The repository holds a JavaScript front end (price-predictor_1.jsx: the *)
(* React component PricePredictorApp with predictPrices, and the vanilla   *)
(* ProductURLParser / PricePredictionAPI / UIController) and two README    *)
(* files that document the Python back end (app.py, app_enhanced.py),      *)
(* which is not part of the sources.  The module has several parts, each   *)
(* with a specification of its own:                                        *)
(*                                                                         *)
(*   SpecResolve   the back end's fallback chain EXACT -> SIMILAR ->       *)
(*                 CATEGORY -> FAILED (modelled from the specification);   *)
(*   SpecReload    requests reading the store while it is reloaded, and    *)
(*   SpecFit       the Trend Fitter (both modelled from the                *)
(*                 specification);                                         *)
(*   SpecForecast  the Forecaster (from the specification) and             *)
(*                 UIController.getSortedPredictionEntries;                *)
(*   SpecParse     ProductURLParser.parse;                                 *)
(*   SpecMock      PricePredictionAPI.mockAnalyzeProduct;                  *)
(*   SpecPredict   predictPrices, and SpecTwice, two calls of it on the    *)
(*                 same arguments;                                         *)
(*   Spec          the two handleAnalyze handlers and the requests they    *)
(*                 leave in flight, and FairSpec, the same handlers in     *)
(*                 runs where every pending request settles.               *)
(*                                                                         *)
(* Amounts of money are fixed-point integers, Scale units to the rupee.    *)
(* Math.random() is k / RandDen for a k the action chooses.                *)
(***************************************************************************)
EXTENDS Integers, Naturals, Sequences, FiniteSets, TLC

VARIABLES
    \* ---- fallback chain (one request against a read-only store)
    store,          \* [products: set of product keys, categories: set of category keys]
    query,          \* [keywords, category]
    rstate,         \* the tier the orchestrator is in
    rdone,          \* the request reached a terminal outcome
    outcome,        \* the terminal outcome, or NoOutcome
    rtrace,         \* the tiers attempted so far, in order
    \* ---- mockAnalyzeProduct
    threshold,      \* the decision threshold of the request, in percent
    mockResp,       \* the response object, or NoResp
    \* ---- predictPrices
    ppArgs,         \* [currentPrice, trend]
    predictions,    \* the array returned by a call, or NotRun
    predictionsAgain, \* the array returned by a second call on ppArgs
    \* ---- handleAnalyze (UIController and PricePredictorApp)
    mounted,        \* which front end the page runs
    invocations,    \* how many handleAnalyze invocations the run may have
    urlInput,       \* elements.urlInput.value / the React state url
    loading,        \* analyzeBtn.disabled / the React state loading
    errorShown,     \* errorMessage.style.display = 'flex' / error non-empty
    errorText,      \* errorMessage.textContent / the React state error
    productInfoShown, \* productInfo.style.display = 'block' / result rendered
    resultsShown,   \* resultsSection.style.display = 'block' / result rendered
    shown,          \* what displayResults last rendered / the React state result
    inflight,       \* analyses suspended at their await
    nextId,         \* the number of handleAnalyze invocations so far
    last,           \* what the latest handleAnalyze invocation did before its await (history)
    lastDone,       \* how the latest analysis to complete ended and what the page then showed (history)
    \* ---- store reload (requests reading the store while it is rebuilt)
    live,           \* the store a new request takes its reference to
    building,       \* the store a reload is loading, or NoBuild
    readers,        \* the requests: the reference each took and the stores its reads saw
    published,      \* every store that has been live (history)
    \* ---- Trend Fitter
    series,         \* the observations handed to fit, ordered by time
    model,          \* the TrendModel fit returned, or NoModel
    \* ---- Forecaster and getSortedPredictionEntries
    fcArgs,         \* [model, currentDay, horizons]: the arguments of forecast
    forecasts,      \* the sequence forecast returned, or NoForecasts
    predObj,        \* data.predictions: its [key, value] pairs in Object.entries order
    entries,        \* what getSortedPredictionEntries returned: [done, items]
    \* ---- ProductURLParser.parse
    parseArg,       \* the URL handed to parse
    parsed          \* [done, result]: the descriptor parse returned or the error it threw

resolveVars == <<store, query, rstate, rdone, outcome, rtrace>>
mockVars    == <<threshold, mockResp>>
predictVars == <<ppArgs, predictions, predictionsAgain>>
uiVars      == <<mounted, invocations, urlInput, loading, errorShown, errorText,
                 productInfoShown, resultsShown, shown, inflight, nextId, last, lastDone>>
reloadVars  == <<live, building, readers, published>>
fitVars     == <<series, model>>
forecastVars == <<fcArgs, forecasts, predObj, entries>>
parseVars   == <<parseArg, parsed>>
moreVars    == <<reloadVars, fitVars, forecastVars, parseVars>>
vars        == <<resolveVars, mockVars, predictVars, uiVars, moreVars>>

\* Everything but one group.
exceptReload   == <<resolveVars, mockVars, predictVars, uiVars, fitVars, forecastVars, parseVars>>
exceptFit      == <<resolveVars, mockVars, predictVars, uiVars, reloadVars, forecastVars, parseVars>>
exceptForecast == <<resolveVars, mockVars, predictVars, uiVars, reloadVars, fitVars, parseVars>>
exceptParse    == <<resolveVars, mockVars, predictVars, uiVars, reloadVars, fitVars, forecastVars>>

-----------------------------------------------------------------------------
(***************************************************************************)
(* Fixed-point arithmetic.                                                 *)
(***************************************************************************)

\* Units to the rupee: an amount a is the integer a * Scale.
Scale == 10 * 10 * 10

\* Math.random() returns k / RandDen, 0 <= k < RandDen.
RandDen == 10 * 10 * 10 * 10

\* floor(a * b / d) for b >= 0 and d > 0, without forming a * b.
MulDivFloor(a, b, d) == a * (b \div d) + (a * (b % d)) \div d

\* a * b / d rounded to the nearest integer (halves up).
MulDivRound(a, b, d) == a * (b \div d) + (a * (b % d) + d \div 2) \div d

\* Math.round of an amount, in whole rupees (halves round up).
MathRound(a) == (a + Scale \div 2) \div Scale

Rupees(n) == n * Scale

-----------------------------------------------------------------------------
(***************************************************************************)
(* Part 1.  The Resolution / Fallback Orchestrator.                        *)
(***************************************************************************)

Keywords   == {"iphone", "15", "shirt"}
Categories == {"electronics", "fashion"}
NoCategory == "none"
NoOutcome  == "none"

\* A product key is the set of its normalized keywords.
ProductKeys == SUBSET Keywords \ {{}}

\* The most products a store holds.
MaxProducts == 2

Stores ==
    { [products |-> P, categories |-> C] :
        P \in { S \in SUBSET ProductKeys : Cardinality(S) <= MaxProducts },
        C \in SUBSET Categories }

Queries ==
    { [keywords |-> K, category |-> c] :
        K \in ProductKeys, c \in Categories \cup {NoCategory} }

TierOrder == <<"EXACT", "SIMILAR", "CATEGORY", "FAILED">>

\* getSeries(query.normalizedKey) hits.
ExactHit(s, q) == q.keywords \in s.products

\* The keyword overlap score of the query with a product key.
Overlap(q, key) == Cardinality(q.keywords \cap key)

\* A key qualifies when its overlap is above this.
MinOverlap == 0

\* The highest-overlap keys above the minimum-overlap threshold.
SimilarKeys(s, q) ==
    { key \in s.products :
        /\ Overlap(q, key) > MinOverlap
        /\ \A other \in s.products : Overlap(q, other) <= Overlap(q, key) }

SimilarHit(s, q) == SimilarKeys(s, q) # {}

\* The keyword-to-category lookup table.
KeywordCategory(k) ==
    CASE k = "iphone" -> "electronics"
      [] k = "shirt"  -> "fashion"
      [] OTHER        -> NoCategory

\* A lookup that falls back on a default category.
ResolveCategoryDefaults(q) ==
    IF q.category # NoCategory THEN q.category
    ELSE IF \E k \in q.keywords : KeywordCategory(k) = "fashion" THEN "fashion"
    ELSE "electronics"

\* query.category, supplied or inferred from the lookup table.
ResolveCategory(q) ==
    IF q.category # NoCategory THEN q.category
    ELSE IF \E k \in q.keywords : KeywordCategory(k) = "electronics" THEN "electronics"
    ELSE IF \E k \in q.keywords : KeywordCategory(k) = "fashion" THEN "fashion"
    ELSE NoCategory

\* The category resolves and its series is not empty.
CategoryHit(s, q) == ResolveCategory(q) \in s.categories

InitResolve ==
    /\ store \in Stores
    /\ query \in Queries
    /\ rstate = "EXACT"
    /\ rdone = FALSE
    /\ outcome = NoOutcome
    /\ rtrace = <<>>

IdleResolve ==
    /\ store = [products |-> {}, categories |-> {}]
    /\ query = [keywords |-> {"iphone"}, category |-> NoCategory]
    /\ rstate = "EXACT"
    /\ rdone = FALSE
    /\ outcome = NoOutcome
    /\ rtrace = <<>>

\* A chain without the similar-product tier.
AfterExactMissSkips == "CATEGORY"

\* The tier entered when the exact lookup misses.
AfterExactMiss == "SIMILAR"

\* A chain that gives up without trying the category.
AfterSimilarMissSkips == "FAILED"

\* The tier entered when no similar product qualifies.
AfterSimilarMiss == "CATEGORY"

\* A chain that starts over when the category misses.
AfterCategoryMissRetries == "EXACT"

\* The tier entered when no category series is found.
AfterCategoryMiss == "FAILED"

\* The orchestrator leaves a tier: terminal success on a hit, the next tier on a miss.
Attempt(tier, hit, next) ==
    /\ ~rdone
    /\ rstate = tier
    /\ rtrace' = Append(rtrace, tier)
    /\ IF hit
         THEN /\ rdone' = TRUE
              /\ outcome' = tier
              /\ rstate' = rstate
         ELSE /\ rdone' = FALSE
              /\ outcome' = outcome
              /\ rstate' = next
    /\ UNCHANGED <<store, query>>

AttemptExact ==
    /\ Attempt("EXACT", ExactHit(store, query), AfterExactMiss)
    /\ UNCHANGED <<mockVars, predictVars, uiVars, moreVars>>

AttemptSimilar ==
    /\ Attempt("SIMILAR", SimilarHit(store, query), AfterSimilarMiss)
    /\ UNCHANGED <<mockVars, predictVars, uiVars, moreVars>>

AttemptCategory ==
    /\ Attempt("CATEGORY", CategoryHit(store, query), AfterCategoryMiss)
    /\ UNCHANGED <<mockVars, predictVars, uiVars, moreVars>>

\* Terminal failure, reported as NoDataAvailable.
Fail ==
    /\ Attempt("FAILED", TRUE, "FAILED")
    /\ UNCHANGED <<mockVars, predictVars, uiVars, moreVars>>

\* The response a terminal outcome is reported as: the source kind of a
\* success, the error kind of a failure.
ResolveResponse(o) ==
    IF o = "FAILED"
      THEN [success |-> FALSE, errorKind |-> "NoDataAvailable", resolvedSourceKind |-> NoOutcome]
      ELSE [success |-> TRUE, errorKind |-> "", resolvedSourceKind |-> o]

NextResolve == AttemptExact \/ AttemptSimilar \/ AttemptCategory \/ Fail

-----------------------------------------------------------------------------
(***************************************************************************)
(* Part 1b.  Reloading the TimeSeries Store.                               *)
(*                                                                         *)
(* A request takes a reference to the live store when it starts and does   *)
(* its lookups (one per tier) through that reference.  A reload loads the  *)
(* new store row by row into a store of its own and then makes it the live *)
(* store in one step, the swap of a reference.                             *)
(***************************************************************************)

NoBuild == [target |-> [products |-> {}, categories |-> {}],
            loaded |-> [products |-> {}, categories |-> {}], active |-> FALSE]

\* The most requests in a run.
MaxReaders == 2

\* The lookups of a request: one for each of EXACT, SIMILAR, CATEGORY.
ReadsPerRequest == Len(TierOrder) - 1

\* The stores a reload loads.
ReloadStores ==
    { [products |-> {{"iphone"}}, categories |-> {"electronics"}],
      [products |-> {{"iphone", "15"}, {"shirt"}}, categories |-> {"fashion"}],
      [products |-> {{"shirt"}}, categories |-> {"electronics", "fashion"}] }

\* The rows of a store: its product series and its category series.
Rows(s) == { [kind |-> "product", product |-> k, category |-> NoCategory] : k \in s.products }
             \cup { [kind |-> "category", product |-> {}, category |-> k] : k \in s.categories }

\* A store with one more row.
WithRow(s, row) ==
    IF row.kind = "product"
      THEN [s EXCEPT !.products = @ \cup {row.product}]
      ELSE [s EXCEPT !.categories = @ \cup {row.category}]

InitReload ==
    /\ live \in ReloadStores
    /\ building = NoBuild
    /\ readers = <<>>
    /\ published = {live}

IdleReload ==
    /\ live = [products |-> {}, categories |-> {}]
    /\ building = NoBuild
    /\ readers = <<>>
    /\ published = {live}

\* A reader that looks the live store up anew at every lookup.
StoreSeenLive(r) == live

\* The store a lookup of request r reads: the one it took a reference to.
StoreSeenBy(r) == r.snapshot

\* A request starts: it takes its reference to the live store.
BeginRequest ==
    /\ Len(readers) < MaxReaders
    /\ readers' = Append(readers, [snapshot |-> live, reads |-> <<>>])
    /\ UNCHANGED <<live, building, published>>
    /\ UNCHANGED exceptReload

\* A request does its next lookup.
ReadStore ==
    /\ \E i \in 1..Len(readers) :
         /\ Len(readers[i].reads) < ReadsPerRequest
         /\ readers' = [readers EXCEPT ![i].reads = Append(@, StoreSeenBy(readers[i]))]
    /\ UNCHANGED <<live, building, published>>
    /\ UNCHANGED exceptReload

\* A reload starts on a new source.
BeginReload ==
    /\ ~building.active
    /\ \E target \in ReloadStores \ {live} :
         building' = [target |-> target,
                      loaded |-> [products |-> {}, categories |-> {}], active |-> TRUE]
    /\ UNCHANGED <<live, readers, published>>
    /\ UNCHANGED exceptReload

\* The reload loads one more row into the store it builds.
LoadRow ==
    /\ building.active
    /\ \E row \in Rows(building.target) \ Rows(building.loaded) :
         building' = [building EXCEPT !.loaded = WithRow(@, row)]
    /\ UNCHANGED <<live, readers, published>>
    /\ UNCHANGED exceptReload

\* The reload is complete: the new store replaces the live one.
SwapStore ==
    /\ building.active
    /\ building.loaded = building.target
    /\ live' = building.loaded
    /\ published' = published \cup {building.loaded}
    /\ building' = NoBuild
    /\ UNCHANGED readers
    /\ UNCHANGED exceptReload

NextReload == BeginRequest \/ ReadStore \/ BeginReload \/ LoadRow \/ SwapStore

-----------------------------------------------------------------------------
(***************************************************************************)
(* Part 1c.  The Trend Fitter.                                             *)
(*                                                                         *)
(* fit regresses price on elapsed days by ordinary least squares.  Prices  *)
(* are whole rupees; slope, intercept and the sums are kept exactly, n^2   *)
(* times the (co)variances, and the fit metric is in 1/Scale.              *)
(***************************************************************************)

NoModel == [ok |-> FALSE, slope |-> 0, intercept |-> 0, fitMetric |-> 0, fitted |-> FALSE]

\* The most observations of a series.
MaxObs == 3

\* The calendar days and the prices of the observations.
ObsDays == 0..2
ObsPrices == {1, 2, 5}

\* Series: one to MaxObs observations in the order of their days.
SeriesInputs ==
    UNION { { s \in [1..n -> [day : ObsDays, price : ObsPrices]] :
                \A i \in 1..(n - 1) : s[i].day <= s[i + 1].day } : n \in 1..MaxObs }

RECURSIVE SumSeq(_)
\* The sum of a sequence of numbers.
SumSeq(q) == IF q = <<>> THEN 0 ELSE Head(q) + SumSeq(Tail(q))

\* day_i: the days elapsed since the earliest observation.
Elapsed(s, i) == s[i].day - s[1].day

\* The sums of the regression: of the days, the prices, their squares and products.
SumX(s)  == SumSeq([i \in 1..Len(s) |-> Elapsed(s, i)])
SumY(s)  == SumSeq([i \in 1..Len(s) |-> s[i].price])
SumXX(s) == SumSeq([i \in 1..Len(s) |-> Elapsed(s, i) * Elapsed(s, i)])
SumYY(s) == SumSeq([i \in 1..Len(s) |-> s[i].price * s[i].price])
SumXY(s) == SumSeq([i \in 1..Len(s) |-> Elapsed(s, i) * s[i].price])

\* n^2 times the variance of the days, of the prices, and their covariance.
DayVariance(s)   == Len(s) * SumXX(s) - SumX(s) * SumX(s)
PriceVariance(s) == Len(s) * SumYY(s) - SumY(s) * SumY(s)
Covariance(s)    == Len(s) * SumXY(s) - SumX(s) * SumY(s)

\* The fit metric clamped to [0, 1].
Clamp(m) == IF m < 0 THEN 0 ELSE IF m > Scale THEN Scale ELSE m

\* The mean price, in 1/Scale of a rupee.
MeanPrice(s) == (SumY(s) * Scale) \div Len(s)

\* A fitter that calls one point, or one day, a perfect fit.
DegenerateModelPerfect(s) ==
    [ok |-> TRUE, slope |-> 0, intercept |-> MeanPrice(s), fitMetric |-> Scale, fitted |-> TRUE]

\* The model of a series with one observation or with all its observations
\* on one day: slope 0, the price as intercept, fit metric 0.
DegenerateModel(s) ==
    [ok |-> TRUE, slope |-> 0, intercept |-> MeanPrice(s), fitMetric |-> 0, fitted |-> TRUE]

\* fit(Series): slope and intercept in 1/Scale of a rupee, the coefficient
\* of determination in 1/Scale.
FitModel(s) ==
    IF Len(s) = 1 \/ DayVariance(s) = 0 THEN DegenerateModel(s)
    ELSE LET slope == (Covariance(s) * Scale) \div DayVariance(s)
             r2 == IF PriceVariance(s) = 0 THEN 0
                   ELSE (Covariance(s) * Covariance(s) * Scale)
                            \div (DayVariance(s) * PriceVariance(s))
         IN  [ok |-> TRUE, slope |-> slope,
              intercept |-> MeanPrice(s) - (slope * SumX(s)) \div Len(s),
              fitMetric |-> Clamp(r2), fitted |-> TRUE]

InitFit ==
    /\ series \in SeriesInputs
    /\ model = NoModel

IdleFit ==
    /\ series = <<[day |-> 0, price |-> 1]>>
    /\ model = NoModel

\* The Trend Fitter fits the series.
Fit ==
    /\ ~model.fitted
    /\ model' = FitModel(series)
    /\ UNCHANGED series
    /\ UNCHANGED exceptFit

NextFit == Fit

-----------------------------------------------------------------------------
(***************************************************************************)
(* Part 1d.  The Forecaster, and UIController.getSortedPredictionEntries,  *)
(* which orders the predictions of a response for the list and the chart.  *)
(***************************************************************************)

NoForecasts == <<>>

\* The most horizons of a request.
MaxHorizons == 2

\* The day offsets a request asks for.
HorizonChoices == {7, 15, 30, 60}

\* Sequences of at most n different elements of S, in every order.
DistinctSeqs(S, n) ==
    { q \in UNION { [1..k -> S] : k \in 0..n } :
        \A i \in 1..Len(q) : \A j \in 1..Len(q) : i # j => q[i] # q[j] }

\* The trend models forecast is given: a falling price that would cross
\* zero, and a single observation's flat model.
FcModels ==
    { FitModel(<<[day |-> 0, price |-> 5], [day |-> 2, price |-> 1]>>),
      FitModel(<<[day |-> 1, price |-> 2]>>) }

FcInputs ==
    { [model |-> m, currentDay |-> 2, horizons |-> hs] :
        m \in FcModels, hs \in DistinctSeqs(HorizonChoices, MaxHorizons) \ {<<>>} }

\* The smallest price a forecast may be, in 1/Scale of a rupee.
MinForecastPrice == 1

\* slope * (currentDay + horizonDays) + intercept, floored at the minimum.
ForecastPrice(m, currentDay, h) ==
    LET raw == m.slope * (currentDay + h) + m.intercept
    IN  IF raw < MinForecastPrice THEN MinForecastPrice ELSE raw

\* forecast(TrendModel, currentDay, horizons): one Forecast per horizon, in
\* the order of the horizons.
ForecastSeq(m, currentDay, hs) ==
    [i \in 1..Len(hs) |->
        [horizonDays |-> hs[i], predictedPrice |-> ForecastPrice(m, currentDay, hs[i])]]

\* The most properties of a predictions object.
MaxEntries == 3

\* The property names: '<n>_days' predictions, a name that ends in '_days'
\* without a number, and a property that is no prediction.
PredKeys == {"7_days", "15_days", "30_days", "90_days", "x_days", "trend"}

\* A property value: typeof value and, for a number, the amount.
NumberValue(n) == [type |-> "number", n |-> n]
NullValue == [type |-> "object", n |-> 0]

\* The property values: a number, or a value that is not a number.
PredValues == {NumberValue(Rupees(41800)), NullValue}

\* The predictions objects: properties with different names, in any order.
PredictionObjects ==
    UNION { { [i \in 1..Len(ks) |-> [key |-> ks[i], value |-> vs[i]]] :
                vs \in [1..Len(ks) -> PredValues] } :
            ks \in DistinctSeqs(PredKeys, MaxEntries) }

\* The predictions of the README's example response.
ExampleObject ==
    << [key |-> "7_days", value |-> NumberValue(Rupees(44500))],
       [key |-> "15_days", value |-> NumberValue(Rupees(43200))],
       [key |-> "30_days", value |-> NumberValue(Rupees(41800))] >>

\* key.endsWith('_days')
EndsWithDays(key) == key \in {"7_days", "15_days", "30_days", "90_days", "x_days"}

\* typeof value === 'number'
IsNumber(value) == value.type = "number"

\* What parseInt returns for a string that does not start with a number.
NaN == 0 - 1

\* parseInt(key.split('_')[0], 10)
ParseDays(key) ==
    CASE key = "7_days"  -> 7
      [] key = "15_days" -> 15
      [] key = "30_days" -> 30
      [] key = "90_days" -> 90
      [] OTHER           -> NaN

\* A comparator that sorts the longest horizon first.
CompareDescending(a, b) == b.days - a.days

\* (a, b) => a.days - b.days
Compare(a, b) == a.days - b.days

\* x put into the sorted sequence q, after the items that do not sort after it.
RECURSIVE InsertSorted(_, _)
InsertSorted(q, x) ==
    IF q = <<>> THEN <<x>>
    ELSE IF Compare(Head(q), x) <= 0 THEN <<Head(q)>> \o InsertSorted(Tail(q), x)
    ELSE <<x>> \o q

\* Array.prototype.sort with Compare (a stable sort).
RECURSIVE SortEntries(_)
SortEntries(q) ==
    IF q = <<>> THEN <<>>
    ELSE InsertSorted(SortEntries(SubSeq(q, 1, Len(q) - 1)), q[Len(q)])

\* getSortedPredictionEntries(predictions)
GetSortedPredictionEntries(obj) ==
    LET numeric == SelectSeq(obj, LAMBDA e : EndsWithDays(e.key) /\ IsNumber(e.value))
        mapped  == [i \in 1..Len(numeric) |->
                      [key |-> numeric[i].key, days |-> ParseDays(numeric[i].key),
                       value |-> numeric[i].value]]
        counted == SelectSeq(mapped, LAMBDA item : item.days # NaN)
    IN  SortEntries(counted)

InitForecast ==
    /\ \/ fcArgs \in FcInputs /\ predObj = ExampleObject
       \/ fcArgs = [model |-> NoModel, currentDay |-> 0, horizons |-> <<7, 15, 30>>]
             /\ predObj \in PredictionObjects
    /\ forecasts = NoForecasts
    /\ entries = [done |-> FALSE, items |-> <<>>]

IdleForecast ==
    /\ fcArgs = [model |-> NoModel, currentDay |-> 0, horizons |-> <<7, 15, 30>>]
    /\ predObj = ExampleObject
    /\ forecasts = NoForecasts
    /\ entries = [done |-> FALSE, items |-> <<>>]

\* The Forecaster projects the model to the horizons.
Forecast ==
    /\ forecasts = NoForecasts
    /\ forecasts' = ForecastSeq(fcArgs.model, fcArgs.currentDay, fcArgs.horizons)
    /\ UNCHANGED <<fcArgs, predObj, entries>>
    /\ UNCHANGED exceptForecast

\* displayPredictions / drawPriceChart ask for the sorted entries.
SortPredictions ==
    /\ ~entries.done
    /\ entries' = [done |-> TRUE, items |-> GetSortedPredictionEntries(predObj)]
    /\ UNCHANGED <<fcArgs, forecasts, predObj>>
    /\ UNCHANGED exceptForecast

NextForecast == Forecast \/ SortPredictions

-----------------------------------------------------------------------------
(***************************************************************************)
(* Part 2.  PricePredictionAPI.mockAnalyzeProduct.                         *)
(*                                                                         *)
(* The mock draws the current price and the three predictions with         *)
(* Math.random() and derives the recommendation from the 30-day            *)
(* prediction.  It takes no threshold: the variable threshold is the       *)
(* decision threshold the request is made under (README: 0.05 by default,  *)
(* 0.03 / 0.10 as alternatives), which the mock does not read.             *)
(***************************************************************************)

NoResp == [success |-> FALSE]

\* The product descriptors handed to the mock.
MockProducts ==
    { [productName |-> "iPhone 15 Pro Max", source |-> "amazon"],
      [productName |-> "boat airdopes", source |-> "query"] }

\* Thresholds, in percent.
Thresholds == {3, 5, 10, 15}

\* The values k of Math.random() = k / RandDen the mock is run with.
MockSamples == {0, 200, 7495, 8398, 9330, 9999}

\* Math.random() * n rupees, for Math.random() = k / RandDen.
RandomTimes(k, n) == MulDivFloor(k, Rupees(n), RandDen)

MockBasePrice == 45999
MockBaseSpread == 10000
Mock7Spread == 2000
Mock15Spread == 3000
Mock30Spread == 5000

\* recommendation.confidence and statistics.r2_score, in hundredths.
MockConfidence == 85
MockR2Score == 78

Abs(a) == IF a < 0 THEN -a ELSE a

\* The comparison the wrong way round.
MockActionFlipped(currentPrice, p30) == IF p30 > currentPrice THEN "WAIT" ELSE "BUY_NOW"

\* predictions['30_days'] < currentPrice ? 'WAIT' : 'BUY_NOW'
MockAction(currentPrice, p30) == IF p30 < currentPrice THEN "WAIT" ELSE "BUY_NOW"

\* The difference taken the other way round, without Math.abs.
MockSavingsReversed(currentPrice, p30) == p30 - currentPrice

\* Math.abs(currentPrice - predictions['30_days'])
MockSavings(currentPrice, p30) == Abs(currentPrice - p30)

\* best_time_days: 30
MockBestTimeDays == 30

\* The recommendation object of the mock's response.
MockRecommendation(currentPrice, preds) ==
    [ action         |-> MockAction(currentPrice, preds[30]),
      savings        |-> MockSavings(currentPrice, preds[30]),
      best_time_days |-> MockBestTimeDays,
      confidence     |-> MockConfidence ]

\* The response for the four draws k0 .. k3.
MockResponse(productData, k0, k1, k2, k3) ==
    LET currentPrice == Rupees(MockBasePrice) + RandomTimes(k0, MockBaseSpread)
        preds == (7  :> currentPrice - RandomTimes(k1, Mock7Spread))
              @@ (15 :> currentPrice - RandomTimes(k2, Mock15Spread))
              @@ (30 :> currentPrice - RandomTimes(k3, Mock30Spread))
    IN  [ success        |-> TRUE,
          product        |-> [ name          |-> productData.productName,
                               current_price |-> currentPrice,
                               source        |-> productData.source,
                               category      |-> "Electronics" ],
          predictions    |-> preds,
          recommendation |-> MockRecommendation(currentPrice, preds),
          statistics     |-> [ avg_price  |-> currentPrice - Rupees(1000),
                               min_price  |-> currentPrice - Rupees(5000),
                               max_price  |-> currentPrice + Rupees(2000),
                               volatility |-> "Medium",
                               r2_score   |-> MockR2Score ] ]

InitMock ==
    /\ threshold \in Thresholds
    /\ mockResp = NoResp

IdleMock ==
    /\ threshold = 5
    /\ mockResp = NoResp

\* One call of mockAnalyzeProduct, from the call to the resolved promise.
MockAnalyzeProduct ==
    /\ mockResp = NoResp
    /\ \E productData \in MockProducts :
         \E k0 \in MockSamples, k1 \in MockSamples, k2 \in MockSamples, k3 \in MockSamples :
            mockResp' = MockResponse(productData, k0, k1, k2, k3)
    /\ UNCHANGED <<threshold, resolveVars, predictVars, uiVars, moreVars>>

NextMock == MockAnalyzeProduct

-----------------------------------------------------------------------------
(***************************************************************************)
(* Part 3.  predictPrices (PricePredictorApp).                             *)
(*                                                                         *)
(* Six monthly steps; each multiplies the running price by the trend's     *)
(* multiplier and adds a variation of up to +-1.5% of the current price.   *)
(* The running price is kept to 1/Scale of a rupee, each product rounded   *)
(* to the nearest unit as the floating-point product is to the nearest     *)
(* double.  monthName (a label made from the clock) is left out.           *)
(***************************************************************************)

NotRun == <<>>

Months == 6

Trends == {"increasing", "decreasing", "stable", "volatile"}

\* The current prices predictPrices is called with: 0.40, 1.00, 2.55 (unit
\* prices of the README's sample data set) and the demo price 25999.
PredictInputs == {400, Rupees(1), 2550, Rupees(25999)}

\* The values k of Math.random() = k / RandDen a call draws from.
RandSamples == {0, 5000, 9999}

\* The same for the two calls of SpecTwice.
CoarseSamples == {0, 9999}

\* Multipliers of 1% a month, which the variation can outweigh.
TrendMultiplierWeak(trend) ==
    CASE trend = "increasing" -> 101
      [] trend = "decreasing" -> 99
      [] OTHER                -> 100

\* trendMultiplier[trend] || 1.0, in percent.
TrendMultiplier(trend) ==
    CASE trend = "increasing" -> 102
      [] trend = "decreasing" -> 98
      [] OTHER                -> 100

\* (Math.random() - 0.5) * 0.03 * currentPrice, for Math.random() = k / RandDen.
Variation(k, currentPrice) ==
    (MulDivFloor(3 * (k - RandDen \div 2), currentPrice, RandDen) + 50) \div 100

\* One pass of the loop body: the new running price.
PredictStep(price, currentPrice, trend, k) ==
    MulDivRound(TrendMultiplier(trend), price, 100) + Variation(k, currentPrice)

RECURSIVE PredictLoop(_, _, _, _, _)
\* The entries pushed from month i on, price being the running price before it.
PredictLoop(i, price, currentPrice, trend, ks) ==
    IF i > Months THEN <<>>
    ELSE LET p == PredictStep(price, currentPrice, trend, ks[i])
         IN  <<[month |-> i, price |-> MathRound(p)]>>
                \o PredictLoop(i + 1, p, currentPrice, trend, ks)

\* predictPrices(currentPrice, trend) with the six draws ks.
PredictPricesWith(currentPrice, trend, ks) ==
    PredictLoop(1, currentPrice, currentPrice, trend, ks)

InitPredict ==
    /\ ppArgs \in [currentPrice : PredictInputs, trend : Trends]
    /\ predictions = NotRun
    /\ predictionsAgain = NotRun

IdlePredict ==
    /\ ppArgs = [currentPrice |-> Rupees(25999), trend |-> "stable"]
    /\ predictions = NotRun
    /\ predictionsAgain = NotRun

\* A call of predictPrices on ppArgs.
PredictPricesCall(samples) ==
    /\ predictions = NotRun
    /\ \E ks \in [1..Months -> samples] :
         predictions' = PredictPricesWith(ppArgs.currentPrice, ppArgs.trend, ks)
    /\ UNCHANGED <<ppArgs, predictionsAgain, resolveVars, mockVars, uiVars, moreVars>>

\* A second call of predictPrices on the same ppArgs.
PredictPricesAgainCall(samples) ==
    /\ predictions # NotRun
    /\ predictionsAgain = NotRun
    /\ \E ks \in [1..Months -> samples] :
         predictionsAgain' = PredictPricesWith(ppArgs.currentPrice, ppArgs.trend, ks)
    /\ UNCHANGED <<ppArgs, predictions, resolveVars, mockVars, uiVars, moreVars>>

PredictPrices == PredictPricesCall(RandSamples)

PredictPricesFirst == PredictPricesCall(CoarseSamples)

PredictPricesAgain == PredictPricesAgainCall(CoarseSamples)

NextPredict == PredictPrices

NextTwice == PredictPricesFirst \/ PredictPricesAgain

-----------------------------------------------------------------------------
(***************************************************************************)
(* Part 4a.  ProductURLParser.                                             *)
(*                                                                         *)
(* What the user typed is a record: text for a plain string, or scheme,    *)
(* host, path (pathname.split('/'), so it starts with "") and the query    *)
(* parameters asin and pid for a string of the form scheme://host/path?... *)
(* new URL(...) throws on a string without scheme or host.                 *)
(***************************************************************************)

Null == "null"

TextInput(t) ==
    [text |-> t, scheme |-> "", host |-> "", path |-> <<>>, asin |-> Null, pid |-> Null]

UrlInput(scheme, host, path, asin, pid) ==
    [text |-> "", scheme |-> scheme, host |-> host, path |-> path, asin |-> asin, pid |-> pid]

\* String.prototype.trim on the plain strings used.
TrimText(t) == IF t = "   " THEN "" ELSE t

\* The test without the trim.
IsBlankNoTrim(v) == v.scheme = "" /\ v.text = ""

\* !value.trim(): nothing but white space.
IsBlank(v) == v.scheme = "" /\ TrimText(v.text) = ""

\* /^(https?:\/\/)/i.test(value)
IsLikelyUrl(v) == v.scheme \in {"http", "https"}

\* new URL(value) does not throw.
UrlParses(v) == v.scheme # "" /\ v.host # ""

\* The substrings, among those the code looks for, that a host name holds.
HostParts(host) ==
    CASE host = "www.amazon.in"    -> {"amazon", "amazon."}
      [] host = "amzn.in"          -> {"amzn.in"}
      [] host = "www.flipkart.com" -> {"flipkart", "flipkart.com"}
      [] host = "dl.flipkart.com"  -> {"flipkart", "flipkart.com"}
      [] host = "www.myntra.com"   -> {"myntra"}
      [] OTHER                     -> {}

\* A comparison of the whole host name in place of includes.
HostIncludesExact(host, part) == host = part

\* hostname.includes(part)
HostIncludes(host, part) == part \in HostParts(host)

\* Array.prototype.indexOf, 1-based; 0 when absent (JavaScript's -1).
IndexOf(parts, x) ==
    IF \E i \in 1..Len(parts) : parts[i] = x
      THEN CHOOSE i \in 1..Len(parts) :
               /\ parts[i] = x
               /\ \A j \in 1..(i - 1) : parts[j] # x
      ELSE 0

\* parts[i] of a JavaScript array, 1-based: undefined (here "") outside it.
At(parts, i) == IF i \in 1..Len(parts) THEN parts[i] ELSE ""

\* formatProductName on the slugs used: '-' and '+' become spaces and every
\* word's first letter is upper-cased.
FormatProductName(slug) ==
    CASE slug = "Apple-iPhone-15" -> "Apple IPhone 15"
      [] slug = "apple-iphone-15" -> "Apple Iphone 15"
      [] slug = "shoes"           -> "Shoes"
      [] slug = "dp"              -> "Dp"
      [] slug = "d"               -> "D"
      [] slug = "gp"              -> "Gp"
      [] slug = "s"               -> "S"
      [] slug = "help"            -> "Help"
      [] slug = "item"            -> "Item"
      [] OTHER                    -> slug

Descriptor(source, productId, productName, v) ==
    [ok |-> TRUE, source |-> source, productId |-> productId,
     productName |-> productName, url |-> v, message |-> ""]

Thrown(message) ==
    [ok |-> FALSE, source |-> "", productId |-> "", productName |-> "",
     url |-> TextInput(""), message |-> message]

MsgAmazon   == "Invalid Amazon URL. Could not find product information."
MsgFlipkart == "Invalid Flipkart URL. Could not find product information."
MsgHost     == "URL must be from Amazon, Flipkart, or Myntra"
MsgInvalid  == "Invalid URL format. Please enter a valid Amazon, Flipkart, or Myntra product link."

ParseAmazon(v) ==
    LET pathParts == v.path
        n         == Len(pathParts)
        dpIndex   == IndexOf(pathParts, "dp")
        gpIndex   == IndexOf(pathParts, "product")
        dIndex    == IndexOf(pathParts, "d")
        last_     == At(pathParts, n)
    IN  IF HostIncludes(v.host, "amzn.in") /\ dIndex # 0 /\ dIndex + 1 <= n
          THEN Descriptor("amazon", pathParts[dIndex + 1], "Amazon Product", v)
        ELSE IF dpIndex # 0 /\ dpIndex + 1 <= n
          THEN Descriptor("amazon", pathParts[dpIndex + 1],
                          IF At(pathParts, dpIndex - 1) # ""
                            THEN FormatProductName(pathParts[dpIndex - 1])
                            ELSE "Amazon Product", v)
        ELSE IF gpIndex # 0 /\ gpIndex + 1 <= n
          THEN Descriptor("amazon", pathParts[gpIndex + 1], "Amazon Product", v)
        ELSE IF v.asin # Null /\ v.asin # ""
          THEN Descriptor("amazon", v.asin, "Amazon Product", v)
        ELSE IF last_ # ""
          THEN Descriptor("amazon", last_, "Amazon Product", v)
        ELSE Thrown(MsgAmazon)

ParseFlipkart(v) ==
    LET pathParts == v.path
        n         == Len(pathParts)
        pIndex    == IndexOf(pathParts, "p")
        sIndex    == IndexOf(pathParts, "s")
    IN  IF pIndex # 0 /\ pIndex + 1 <= n
          THEN Descriptor("flipkart", pathParts[pIndex + 1],
                          IF At(pathParts, 2) # ""
                            THEN FormatProductName(pathParts[2])
                            ELSE "Flipkart Product", v)
        ELSE IF sIndex # 0 /\ sIndex + 1 <= n
          THEN Descriptor("flipkart", pathParts[sIndex + 1], "Flipkart Product", v)
        ELSE IF v.pid # Null /\ v.pid # ""
          THEN Descriptor("flipkart", v.pid, "Flipkart Product", v)
        ELSE IF n > 1 /\ At(pathParts, n) # ""
          THEN Descriptor("flipkart", pathParts[n], "Flipkart Product", v)
        ELSE Thrown(MsgFlipkart)

\* /^\d+$/.test(p) on the path segments used.
IsNumeric(p) == p \in {"123", "15"}

\* p.toLowerCase() !== 'buy'
IsBuy(p) == p \in {"buy", "Buy", "BUY"}

ParseMyntra(v) ==
    LET pathParts == SelectSeq(v.path, LAMBDA p : p # "")
        n         == Len(pathParts)
        numerics  == SelectSeq(pathParts, IsNumeric)
        slugs     == SelectSeq(pathParts, LAMBDA p : ~IsNumeric(p) /\ ~IsBuy(p))
    IN  Descriptor("myntra",
                   IF numerics # <<>> THEN numerics[1]
                   ELSE IF At(pathParts, n) # "" THEN pathParts[n] ELSE "myntra",
                   IF slugs # <<>> THEN FormatProductName(slugs[1]) ELSE "Myntra Product",
                   v)

\* The body of parse's try block.
ParseInner(v) ==
    IF ~UrlParses(v) THEN Thrown("Invalid URL")
    ELSE IF HostIncludes(v.host, "amazon") \/ HostIncludes(v.host, "amzn.in")
      THEN ParseAmazon(v)
    ELSE IF HostIncludes(v.host, "flipkart") THEN ParseFlipkart(v)
    ELSE IF HostIncludes(v.host, "myntra") THEN ParseMyntra(v)
    ELSE Thrown(MsgHost)

\* A catch block that throws the error it caught.
ParseCatchRethrow(inner) == inner

\* What the catch block throws in place of any error of the try block.
ParseCatch(inner) == Thrown(MsgInvalid)

\* ProductURLParser.parse: a descriptor, or the error it throws.
Parse(v) ==
    LET inner == ParseInner(v)
    IN  IF inner.ok THEN inner ELSE ParseCatch(inner)

\* The host names of the links handed to parse.
ParseHosts ==
    {"www.amazon.in", "amzn.in", "www.flipkart.com", "dl.flipkart.com",
     "www.myntra.com", "www.example.com", ""}

\* pathname.split('/') of the links: the root, product pages in the
\* patterns the parser's comments list, and paths that end in a slash.
ParsePaths ==
    { <<"", "">>,
      <<"", "dp", "B0CX23V2ZK">>,
      <<"", "Apple-iPhone-15", "dp", "B0CX23V2ZK">>,
      <<"", "dp", "">>,
      <<"", "dp">>,
      <<"", "gp", "product", "B08L5VFHQQ">>,
      <<"", "d", "abc123">>,
      <<"", "apple-iphone-15", "p", "itm123456">>,
      <<"", "s", "kHKUCluuuN">>,
      <<"", "help", "">>,
      <<"", "shoes", "123", "buy">> }

\* searchParams.get('asin') and searchParams.get('pid').
ParseAsins == {Null, "", "B08L5VFHQQ"}
ParsePids  == {Null, "MOBGTAGPTB3VS24W"}

ParseInputs ==
    { UrlInput("https", h, path, asin, pid) :
        h \in ParseHosts, path \in ParsePaths, asin \in ParseAsins, pid \in ParsePids }

NotParsed == [done |-> FALSE, result |-> Thrown("")]

InitParse ==
    /\ parseArg \in ParseInputs
    /\ parsed = NotParsed

IdleParse ==
    /\ parseArg = UrlInput("https", "www.amazon.in", <<"", "dp", "B0CX23V2ZK">>, Null, Null)
    /\ parsed = NotParsed

\* A call of ProductURLParser.parse.
ParseCall ==
    /\ ~parsed.done
    /\ parsed' = [done |-> TRUE, result |-> Parse(parseArg)]
    /\ UNCHANGED parseArg
    /\ UNCHANGED exceptParse

NextParse == ParseCall

-----------------------------------------------------------------------------
(***************************************************************************)
(* Part 4b.  The two front ends and their handleAnalyze.                   *)
(*                                                                         *)
(* The file holds two front ends: the React component PricePredictorApp    *)
(* and the vanilla UIController.  A page runs one of them; mounted says    *)
(* which.  A handleAnalyze invocation runs without interruption up to its  *)
(* await (the fetch), where it joins inflight, and again from the          *)
(* response to its end.  User events may arrive in between.                *)
(***************************************************************************)

\* The most handleAnalyze invocations in a run.
MaxInvocations == 3

\* The most handleAnalyze invocations in a run that is followed to its end
\* (FairSpec): enough for two analyses to overlap.
MaxOverlap == 2

FrontEnds == {"UIController", "PricePredictorApp"}

ExampleAmazon   == UrlInput("https", "www.amazon.in", <<"", "dp", "B0CX23V2ZK">>, Null, Null)
ExampleFlipkart == UrlInput("https", "dl.flipkart.com", <<"", "s", "kHKUCluuuN">>, Null, Null)

\* The data-url of the example buttons / the arguments of setExampleUrl.
ExampleUrls == {ExampleAmazon, ExampleFlipkart}

\* What the user leaves in the input field.
UiInputs ==
    { TextInput(""), TextInput("   "), TextInput("iPhone 15"),
      ExampleAmazon,
      UrlInput("https", "www.flipkart.com", <<"", "">>, Null, Null),
      UrlInput("https", "www.example.com", <<"", "item", "1">>, Null, Null),
      UrlInput("http", "", <<>>, Null, Null) }

MsgEmptyUI     == "Please enter a product URL or product name"
MsgEmptyApp    == "Please enter a product URL"
MsgInvalidApp  == "Invalid URL format. Please enter a valid Amazon or Flipkart product link."
MsgFailedApp   == "Failed to analyze the product. Please try again."
MsgApiDefault  == "Failed to analyze product"
MsgNoData      == "No data available for product"
MsgFetch       == "Failed to fetch"
MsgTypeError   == "Cannot read properties of undefined"

NoData == [of |-> 0, name |-> "", source |-> "", predictions |-> <<>>]

NoInvocation ==
    [id |-> 0, input |-> TextInput(""), setLoadingTrue |-> 0, fetches |-> 0, rejected |-> FALSE]

\* What handleAnalyze invocation id, started on input v, did before returning
\* or suspending: calls of setLoading(true), fetches issued, and whether it
\* ended in an error without suspending.
Invocation(id, v, setLoadingTrue, fetches, rejected) ==
    [id |-> id, input |-> v, setLoadingTrue |-> setLoadingTrue,
     fetches |-> fetches, rejected |-> rejected]

\* No failure: the cause of a completion that is ok.
NoFailure == [kind |-> "none", message |-> ""]

NoCompletion ==
    [id |-> 0, ok |-> FALSE, cause |-> NoFailure, errorShown |-> FALSE, errorText |-> "",
     resultsShown |-> FALSE, shownOf |-> 0]

\* Analysis id came back, ok or with the failure cause; the rest is what the
\* page shows when its handleAnalyze has run to its end.
Completion(id, ok, cause, eShown, eText, rShown, shownOf) ==
    [id |-> id, ok |-> ok, cause |-> cause, errorShown |-> eShown, errorText |-> eText,
     resultsShown |-> rShown, shownOf |-> shownOf]

InitUI ==
    /\ mounted \in FrontEnds
    /\ invocations = MaxInvocations
    /\ urlInput = TextInput("")
    /\ loading = FALSE
    /\ errorShown = FALSE
    /\ errorText = ""
    /\ productInfoShown = FALSE
    /\ resultsShown = FALSE
    /\ shown = NoData
    /\ inflight = {}
    /\ nextId = 0
    /\ last = NoInvocation
    /\ lastDone = NoCompletion

\* The page of a run that is followed to its end.
InitOverlap ==
    /\ mounted \in FrontEnds
    /\ invocations = MaxOverlap
    /\ urlInput = TextInput("")
    /\ loading = FALSE
    /\ errorShown = FALSE
    /\ errorText = ""
    /\ productInfoShown = FALSE
    /\ resultsShown = FALSE
    /\ shown = NoData
    /\ inflight = {}
    /\ nextId = 0
    /\ last = NoInvocation
    /\ lastDone = NoCompletion

IdleUI ==
    /\ mounted = "UIController"
    /\ invocations = 0
    /\ urlInput = TextInput("")
    /\ loading = FALSE
    /\ errorShown = FALSE
    /\ errorText = ""
    /\ productInfoShown = FALSE
    /\ resultsShown = FALSE
    /\ shown = NoData
    /\ inflight = {}
    /\ nextId = 0
    /\ last = NoInvocation
    /\ lastDone = NoCompletion

(***************************************************************************)
(* UIController.                                                           *)
(***************************************************************************)

\* Product-name mode: the descriptor made from a plain string.
QueryDescriptor(v) == Descriptor("query", "query", TrimText(v.text), TextInput(""))

\* A handler whose finally block is missing: the loading flag stays as it is.
AfterFinallyStuck(l) == l

\* finally { setLoading(false) }: the loading flag after the try statement of
\* handleAnalyze has ended, by its last statement or through its catch.
AfterFinally(l) == FALSE

\* UIController.handleAnalyze up to its await (or to its end when it does
\* not reach the await).
UIHandleAnalyze(v) ==
    LET id == nextId + 1
        productData == IF IsLikelyUrl(v) THEN Parse(v) ELSE QueryDescriptor(v)
    IN  /\ nextId < invocations
        /\ nextId' = id
        /\ IF IsBlank(v)
             THEN \* showError(...); return
                  /\ errorShown' = TRUE
                  /\ errorText' = MsgEmptyUI
                  /\ last' = Invocation(id, v, 0, 0, TRUE)
                  /\ UNCHANGED <<loading, productInfoShown, resultsShown, inflight>>
             ELSE IF ~productData.ok
             THEN \* hideError(); setLoading(true); parse throws;
                  \* showError(error.message); setLoading(false)
                  /\ errorShown' = TRUE
                  /\ errorText' = productData.message
                  /\ loading' = AfterFinally(TRUE)
                  /\ productInfoShown' = FALSE
                  /\ resultsShown' = FALSE
                  /\ last' = Invocation(id, v, 1, 0, TRUE)
                  /\ UNCHANGED inflight
             ELSE \* hideError(); setLoading(true); fetch; await
                  /\ errorShown' = FALSE
                  /\ errorText' = errorText
                  /\ loading' = TRUE
                  /\ productInfoShown' = FALSE
                  /\ resultsShown' = FALSE
                  /\ inflight' = inflight \cup {[id |-> id, productData |-> productData]}
                  /\ last' = Invocation(id, v, 1, 1, FALSE)
        /\ UNCHANGED <<mounted, invocations, shown, lastDone>>

\* The user edits the input field.
UITypeInput ==
    /\ mounted = "UIController"
    /\ \E v \in UiInputs : urlInput' = v
    /\ urlInput' # urlInput
    /\ UNCHANGED <<mounted, invocations, loading, errorShown, errorText, productInfoShown,
                   resultsShown, shown, inflight, nextId, last, lastDone>>
    /\ UNCHANGED <<resolveVars, mockVars, predictVars, moreVars>>

\* A click on the analyze button: a disabled button fires no click.
UIClickAnalyze ==
    /\ mounted = "UIController"
    /\ ~loading
    /\ UIHandleAnalyze(urlInput)
    /\ UNCHANGED urlInput
    /\ UNCHANGED <<resolveVars, mockVars, predictVars, moreVars>>

\* The Enter key in the input field.
UIPressEnter ==
    /\ mounted = "UIController"
    /\ UIHandleAnalyze(urlInput)
    /\ UNCHANGED urlInput
    /\ UNCHANGED <<resolveVars, mockVars, predictVars, moreVars>>

\* An example button: set the input to the button's data-url, then handleAnalyze.
UIClickExample ==
    /\ mounted = "UIController"
    /\ \E u \in ExampleUrls :
         /\ urlInput' = u
         /\ UIHandleAnalyze(u)
    /\ UNCHANGED <<resolveVars, mockVars, predictVars, moreVars>>

\* The data of a successful /api/analyze response for a descriptor.
ApiData(id, productData) ==
    [of |-> id, name |-> productData.productName, source |-> productData.source,
     predictions |-> <<>>]

\* The ways an analysis fails after its fetch: a response that is not ok,
\* whose body carries a message or none; a fetch that rejects; a response
\* displayResults cannot render.
ApiFailures ==
    { [kind |-> "response", message |-> MsgNoData],
      [kind |-> "response", message |-> ""],
      [kind |-> "network",  message |-> MsgFetch],
      [kind |-> "display",  message |-> MsgTypeError] }

\* An analyzeProduct that throws its own text for every failure.
AnalyzeProductErrorDefault(f) == MsgApiDefault

\* The message of the error handleAnalyze catches: analyzeProduct throws
\* new Error(error.message || 'Failed to analyze product') for a response
\* that is not ok and rethrows anything else.
AnalyzeProductError(f) ==
    IF f.kind = "response" /\ f.message = "" THEN MsgApiDefault ELSE f.message

\* The messages analyzeProduct's promise rejects with: the response's own
\* message, the default for a response without one, a failed fetch.
ApiErrors == { AnalyzeProductError(f) : f \in { g \in ApiFailures : g.kind # "display" } }

\* The response arrives: displayResults(result); finally setLoading(false).
UIResumeOk ==
    /\ mounted = "UIController"
    /\ \E r \in inflight :
         /\ inflight' = inflight \ {r}
         /\ shown' = ApiData(r.id, r.productData)
         /\ productInfoShown' = TRUE
         /\ resultsShown' = TRUE
         /\ loading' = AfterFinally(loading)
         /\ lastDone' = Completion(r.id, TRUE, NoFailure, errorShown, errorText, TRUE, r.id)
    /\ UNCHANGED <<mounted, invocations, urlInput, errorShown, errorText, nextId, last>>
    /\ UNCHANGED <<resolveVars, mockVars, predictVars, moreVars>>

\* analyzeProduct throws, or displayResults throws on a response without a
\* product: showError(error.message); finally setLoading(false).
UIResumeError ==
    /\ mounted = "UIController"
    /\ \E r \in inflight :
         \E f \in ApiFailures :
            /\ inflight' = inflight \ {r}
            /\ errorShown' = TRUE
            /\ errorText' = AnalyzeProductError(f)
            /\ loading' = AfterFinally(loading)
            /\ lastDone' = Completion(r.id, FALSE, f, TRUE, errorText',
                                      resultsShown, shown.of)
    /\ UNCHANGED <<mounted, invocations, urlInput, productInfoShown, resultsShown, shown, nextId, last>>
    /\ UNCHANGED <<resolveVars, mockVars, predictVars, moreVars>>

(***************************************************************************)
(* PricePredictorApp.  error is errorText (shown when not empty), result   *)
(* is shown (rendered when not null, here NoData).                         *)
(***************************************************************************)

\* isValidUrl(urlString)
IsValidUrl(v) ==
    /\ UrlParses(v)
    /\ (HostIncludes(v.host, "amazon.") \/ HostIncludes(v.host, "flipkart.com"))

\* The React state after setError(e) and setResult(r).
AppSet(e, r) ==
    /\ errorText' = e
    /\ errorShown' = (e # "")
    /\ shown' = r
    /\ productInfoShown' = (r # NoData)
    /\ resultsShown' = (r # NoData)

\* PricePredictorApp.handleAnalyze up to its await.
AppHandleAnalyze ==
    LET id == nextId + 1
        v  == urlInput
    IN  /\ mounted = "PricePredictorApp"
        /\ nextId < invocations
        /\ nextId' = id
        /\ IF IsBlank(v)
             THEN /\ AppSet(MsgEmptyApp, NoData)
                  /\ last' = Invocation(id, v, 0, 0, TRUE)
                  /\ UNCHANGED <<loading, inflight>>
             ELSE IF ~IsValidUrl(v)
             THEN /\ AppSet(MsgInvalidApp, NoData)
                  /\ last' = Invocation(id, v, 0, 0, TRUE)
                  /\ UNCHANGED <<loading, inflight>>
             ELSE /\ AppSet("", NoData)
                  /\ loading' = TRUE
                  /\ inflight' = inflight \cup {[id |-> id, productData |-> Descriptor("", "", "", v)]}
                  /\ last' = Invocation(id, v, 1, 1, FALSE)
        /\ UNCHANGED <<mounted, invocations, urlInput, lastDone>>

\* A click on the analyze button (disabled while loading).
AppClickAnalyze ==
    /\ ~loading
    /\ AppHandleAnalyze
    /\ UNCHANGED <<resolveVars, mockVars, predictVars, moreVars>>

\* The Enter key in the input field.
AppPressEnter ==
    /\ AppHandleAnalyze
    /\ UNCHANGED <<resolveVars, mockVars, predictVars, moreVars>>

\* onChange of the input field: setUrl.
AppTypeInput ==
    /\ mounted = "PricePredictorApp"
    /\ \E v \in UiInputs : urlInput' = v
    /\ urlInput' # urlInput
    /\ UNCHANGED <<mounted, invocations, loading, errorShown, errorText, productInfoShown,
                   resultsShown, shown, inflight, nextId, last, lastDone>>
    /\ UNCHANGED <<resolveVars, mockVars, predictVars, moreVars>>

\* setExampleUrl: setUrl(exampleUrl); setError('').
AppSetExampleUrl ==
    /\ mounted = "PricePredictorApp"
    /\ \E u \in ExampleUrls : urlInput' = u
    /\ errorText' = ""
    /\ errorShown' = FALSE
    /\ UNCHANGED <<mounted, invocations, loading, productInfoShown, resultsShown, shown,
                   inflight, nextId, last, lastDone>>
    /\ UNCHANGED <<resolveVars, mockVars, predictVars, moreVars>>

\* What extractProductInfo returns: the JSON found in the reply, or the
\* fallback demo data.
ProductInfos ==
    { [productName |-> "Apple iPhone 15", currentPrice |-> Rupees(79900),
       historical_trend |-> "decreasing"],
      [productName |-> "Sample Product", currentPrice |-> Rupees(25999),
       historical_trend |-> "stable"] }

\* The draws of Math.random() of a call of predictPrices from handleAnalyze.
AppDraws == { [i \in 1..Months |-> k] : k \in CoarseSamples }

\* extractProductInfo resolves: predictPrices, setResult; finally setLoading(false).
AppResumeOk ==
    /\ mounted = "PricePredictorApp"
    /\ \E r \in inflight :
         \E info \in ProductInfos, ks \in AppDraws :
            /\ inflight' = inflight \ {r}
            /\ shown' = [of |-> r.id, name |-> info.productName, source |-> "",
                         predictions |-> PredictPricesWith(info.currentPrice,
                                                           info.historical_trend, ks)]
            /\ productInfoShown' = TRUE
            /\ resultsShown' = TRUE
            /\ loading' = AfterFinally(loading)
            /\ lastDone' = Completion(r.id, TRUE, NoFailure, errorShown, errorText, TRUE, r.id)
    /\ UNCHANGED <<mounted, invocations, urlInput, errorShown, errorText, nextId, last>>
    /\ UNCHANGED <<resolveVars, mockVars, predictVars, moreVars>>

\* The ways extractProductInfo throws: the fetch rejects, or the reply has
\* no content to search.
AppFailures ==
    { [kind |-> "network", message |-> MsgFetch],
      [kind |-> "reply",   message |-> MsgTypeError] }

\* extractProductInfo throws: setError(...); finally setLoading(false).
AppResumeError ==
    /\ mounted = "PricePredictorApp"
    /\ \E r \in inflight :
         \E f \in AppFailures :
            /\ inflight' = inflight \ {r}
            /\ errorText' = MsgFailedApp
            /\ errorShown' = TRUE
            /\ loading' = AfterFinally(loading)
            /\ lastDone' = Completion(r.id, FALSE, f, TRUE, errorText',
                                      resultsShown, shown.of)
    /\ UNCHANGED <<mounted, invocations, urlInput, productInfoShown, resultsShown, shown, nextId, last>>
    /\ UNCHANGED <<resolveVars, mockVars, predictVars, moreVars>>

Next ==
    \/ UITypeInput
    \/ UIClickAnalyze
    \/ UIPressEnter
    \/ UIClickExample
    \/ UIResumeOk
    \/ UIResumeError
    \/ AppTypeInput
    \/ AppClickAnalyze
    \/ AppPressEnter
    \/ AppSetExampleUrl
    \/ AppResumeOk
    \/ AppResumeError

-----------------------------------------------------------------------------
(***************************************************************************)
(* The specifications.                                                     *)
(***************************************************************************)

\* The parts a specification does not run.
IdleMore == IdleReload /\ IdleFit /\ IdleForecast /\ IdleParse

Init == InitUI /\ IdleResolve /\ IdleMock /\ IdlePredict /\ IdleMore

Spec == Init /\ [][Next]_vars

\* A pending request settles: the promise handleAnalyze awaits is resolved
\* or rejected, and the handler's continuation runs.
InitT == InitOverlap /\ IdleResolve /\ IdleMock /\ IdlePredict /\ IdleMore

FairSpec ==
    /\ InitT
    /\ [][Next]_vars
    /\ WF_vars(UIResumeOk \/ UIResumeError)
    /\ WF_vars(AppResumeOk \/ AppResumeError)

InitR == InitResolve /\ IdleMock /\ IdlePredict /\ IdleUI /\ IdleMore

SpecResolve == InitR /\ [][NextResolve]_vars

\* The orchestrator is synchronous code: a request that is not finished
\* takes its next step.
FairSpecResolve == InitR /\ [][NextResolve]_vars /\ WF_vars(NextResolve)

InitM == IdleResolve /\ InitMock /\ IdlePredict /\ IdleUI /\ IdleMore

SpecMock == InitM /\ [][NextMock]_vars

InitP == IdleResolve /\ IdleMock /\ InitPredict /\ IdleUI /\ IdleMore

SpecPredict == InitP /\ [][NextPredict]_vars

SpecTwice == InitP /\ [][NextTwice]_vars

InitL == IdleResolve /\ IdleMock /\ IdlePredict /\ IdleUI /\ InitReload /\ IdleFit /\ IdleForecast /\ IdleParse

SpecReload == InitL /\ [][NextReload]_vars

InitF == IdleResolve /\ IdleMock /\ IdlePredict /\ IdleUI /\ IdleReload /\ InitFit /\ IdleForecast /\ IdleParse

SpecFit == InitF /\ [][NextFit]_vars

InitC == IdleResolve /\ IdleMock /\ IdlePredict /\ IdleUI /\ IdleReload /\ IdleFit /\ InitForecast /\ IdleParse

SpecForecast == InitC /\ [][NextForecast]_vars

InitU == IdleResolve /\ IdleMock /\ IdlePredict /\ IdleUI /\ IdleReload /\ IdleFit /\ IdleForecast /\ InitParse

SpecParse == InitU /\ [][NextParse]_vars

-----------------------------------------------------------------------------
(***************************************************************************)
(* Properties of the fallback chain (SpecResolve, FairSpecResolve).        *)
(***************************************************************************)

TierRank(t) == CHOOSE i \in 1..Len(TierOrder) : TierOrder[i] = t

\* Whether a tier hits for the request.
TierHit(t) ==
    CASE t = "EXACT"    -> ExactHit(store, query)
      [] t = "SIMILAR"  -> SimilarHit(store, query)
      [] t = "CATEGORY" -> CategoryHit(store, query)
      [] OTHER          -> TRUE

\* C1: the tiers a request attempts are, in order, a prefix of EXACT, SIMILAR,
\* CATEGORY, FAILED (so each is attempted at most once), and a tier is
\* attempted only when every earlier tier missed.
C1_TierOrder ==
    /\ Len(rtrace) <= Len(TierOrder)
    /\ \A i \in 1..Len(rtrace) : rtrace[i] = TierOrder[i]
    /\ \A i \in 1..Len(rtrace) : \A j \in 1..(i - 1) : ~TierHit(rtrace[j])

\* A request served by the category after the exact and the similar lookup missed.
C1_Witness ==
    /\ rdone
    /\ outcome = "CATEGORY"
    /\ rtrace = <<"EXACT", "SIMILAR", "CATEGORY">>

\* C2: every request eventually reaches a terminal outcome, which is one of
\* EXACT, SIMILAR, CATEGORY, FAILED and stays what it is; no step moves back
\* to a tier of lower rank or attempts a tier already attempted.
C2_Terminates ==
    /\ <>[](rdone /\ outcome \in {"EXACT", "SIMILAR", "CATEGORY", "FAILED"})
    /\ [][ /\ TierRank(rstate') >= TierRank(rstate)
           /\ (rstate' # rstate => \A i \in 1..Len(rtrace) : rtrace[i] # rstate')
           /\ (rdone => rdone' /\ outcome' = outcome) ]_vars

\* A request that went through every tier and failed.
C2_Witness ==
    /\ rdone
    /\ outcome = "FAILED"
    /\ Len(rtrace) = 4

\* No stored product shares a keyword with the query.
NoKeywordMatch == \A key \in store.products : query.keywords \cap key = {}

\* No category is supplied and no keyword is in the lookup table.
CategoryUnknown ==
    /\ query.category = NoCategory
    /\ \A k \in query.keywords : KeywordCategory(k) = NoCategory

AbsentButSimilar ==
    /\ query.keywords \notin store.products
    /\ \E key \in store.products : Cardinality(query.keywords \cap key) > MinOverlap

\* C12: a query for a product that is not stored but overlaps a stored
\* product above the minimum resolves with source kind SIMILAR, and the
\* CATEGORY tier is never attempted for it.
C12_SimilarNotCategory ==
    AbsentButSimilar =>
        /\ \A i \in 1..Len(rtrace) : rtrace[i] # "CATEGORY"
        /\ rstate # "CATEGORY"
        /\ rdone => /\ outcome = "SIMILAR"
                    /\ ResolveResponse(outcome).resolvedSourceKind = "SIMILAR"

\* Such a query resolved by a similar product although its category has a series.
C12_Witness ==
    /\ AbsentButSimilar
    /\ rdone
    /\ outcome = "SIMILAR"
    /\ rtrace = <<"EXACT", "SIMILAR">>
    /\ CategoryHit(store, query)

-----------------------------------------------------------------------------
(***************************************************************************)
(* Properties of the store reload (SpecReload).                            *)
(***************************************************************************)

\* C13: every lookup of a request reads a whole store that was live when the
\* request started, the same one at every lookup (published holds whole
\* stores only, never one that is still being loaded).
C13_ReloadAtomic ==
    \A i \in 1..Len(readers) :
        /\ readers[i].snapshot \in published
        /\ \A k \in 1..Len(readers[i].reads) :
              /\ readers[i].reads[k] = readers[i].snapshot
              /\ readers[i].reads[k] \in published

\* A request whose lookups straddle a reload: it read the old store before
\* the swap and again after it.
C13_Witness ==
    \E i \in 1..Len(readers) :
        /\ Len(readers[i].reads) = ReadsPerRequest
        /\ readers[i].snapshot # live
        /\ Cardinality(published) > 1
        /\ building.active
        /\ building.loaded # [products |-> {}, categories |-> {}]

-----------------------------------------------------------------------------
(***************************************************************************)
(* Properties of the Trend Fitter (SpecFit).                               *)
(***************************************************************************)

\* Every observation of the series falls on the day of the first.
AllOnOneDay == \A i \in 1..Len(series) : series[i].day = series[1].day

\* C18: fit returns a model for every series, never an error; its fit
\* metric lies in [0, 1]; for a series of one observation and for a series
\* whose observations all fall on one day the fit metric and the slope are 0.
C18_FitMetricRange ==
    model.fitted =>
        /\ model.ok
        /\ model.fitMetric >= 0
        /\ model.fitMetric <= Scale
        /\ (Len(series) = 1 \/ AllOnOneDay) => model.fitMetric = 0 /\ model.slope = 0

\* A fitted series of several observations of different prices on one day.
C18_Witness ==
    /\ model.fitted
    /\ Len(series) > 1
    /\ AllOnOneDay
    /\ \E i \in 1..Len(series) : series[i].price # series[1].price
    /\ model.slope = 0
    /\ model.fitMetric = 0

-----------------------------------------------------------------------------
(***************************************************************************)
(* Properties of the forecasts and their order (SpecForecast).             *)
(***************************************************************************)

\* The day count of every '<n>_days' property name.
DayCount == ("7_days" :> 7) @@ ("15_days" :> 15) @@ ("30_days" :> 30) @@ ("90_days" :> 90)

\* The properties of predObj that are '<n>_days' predictions.
PredictionsOf(obj) ==
    { i \in 1..Len(obj) : obj[i].key \in DOMAIN DayCount /\ obj[i].value.type = "number" }

-----------------------------------------------------------------------------
(***************************************************************************)
(* Properties of the recommendation (SpecMock).                            *)
(***************************************************************************)

Horizons == {7, 15, 30}

\* The lowest predicted price of a response.
BestPrice(resp) ==
    CHOOSE p \in { resp.predictions[h] : h \in Horizons } :
        \A h \in Horizons : p <= resp.predictions[h]

\* (currentPrice - best) / currentPrice >= pct / 100
RelativeDropAtLeast(currentPrice, best, pct) ==
    (currentPrice - best) * 100 >= pct * currentPrice

\* C3: the action is WAIT exactly when the relative drop to the lowest
\* predicted price is at least the threshold, and on WAIT the savings are the
\* current price less the lowest predicted price.
C3_WaitIffRelativeDrop ==
    mockResp.success =>
        LET cur  == mockResp.product.current_price
            best == BestPrice(mockResp)
            rec  == mockResp.recommendation
        IN  /\ rec.action \in {"WAIT", "BUY_NOW"}
            /\ rec.action = "WAIT" <=> RelativeDropAtLeast(cur, best, threshold)
            /\ rec.action = "WAIT" => rec.savings = cur - best

\* The predictions of the README's example response.
ExamplePredictions ==
    (7 :> Rupees(44500)) @@ (15 :> Rupees(43200)) @@ (30 :> Rupees(41800))

IsExample(resp) ==
    /\ resp.success
    /\ resp.product.current_price = Rupees(45999)
    /\ resp.predictions = ExamplePredictions

\* C4: on BUY_NOW the savings and best_time_days are 0; the example under a
\* threshold of 15% is BUY_NOW with savings 0.
C4_BuyNowZero ==
    mockResp.success =>
        LET rec == mockResp.recommendation
        IN  /\ rec.action = "BUY_NOW" => rec.savings = 0 /\ rec.best_time_days = 0
            /\ IsExample(mockResp) /\ threshold = 15 =>
                   rec.action = "BUY_NOW" /\ rec.savings = 0

\* C5: on WAIT, best_time_days is a horizon whose predicted price is the
\* lowest of all horizons.
C5_BestIsMinimum ==
    mockResp.success /\ mockResp.recommendation.action = "WAIT" =>
        /\ mockResp.recommendation.best_time_days \in Horizons
        /\ mockResp.predictions[mockResp.recommendation.best_time_days]
               = BestPrice(mockResp)

\* C6: the example under a threshold of 5% is WAIT with savings 4199 and
\* best_time_days 30.
C6_ExampleWaits ==
    IsExample(mockResp) /\ threshold = 5 =>
        /\ mockResp.recommendation.action = "WAIT"
        /\ mockResp.recommendation.savings = Rupees(4199)
        /\ mockResp.recommendation.best_time_days = 30

\* The example response under a threshold of 5%.
C6_Witness ==
    /\ IsExample(mockResp)
    /\ threshold = 5
    /\ mockResp.recommendation.savings = Rupees(4199)

\* C16: in every recommendation the savings are not negative, the confidence
\* lies in [0, 1] (here in hundredths) and the action is BUY_NOW or WAIT.
C16_RecommendationRanges ==
    mockResp.success =>
        /\ mockResp.recommendation.savings >= 0
        /\ mockResp.recommendation.confidence >= 0
        /\ mockResp.recommendation.confidence <= 100
        /\ mockResp.recommendation.action \in {"BUY_NOW", "WAIT"}

\* A recommendation to wait with savings above 0.
C16_Witness ==
    /\ mockResp.success
    /\ mockResp.recommendation.action = "WAIT"
    /\ mockResp.recommendation.savings > Rupees(4000)
    /\ mockResp.predictions[30] < mockResp.product.current_price

\* The discount factor of a fallback tier, in percent.
Discount(tier) ==
    CASE tier = "EXACT"    -> 100
      [] tier = "SIMILAR"  -> 85
      [] tier = "CATEGORY" -> 70

\* C17: the confidence is the fit metric (r2_score) times the discount
\* factor of a tier, 1 for EXACT and less for SIMILAR and CATEGORY, and so
\* never above the fit metric.
C17_ConfidenceDiscount ==
    mockResp.success =>
        /\ \E tier \in {"EXACT", "SIMILAR", "CATEGORY"} :
              mockResp.recommendation.confidence * 100
                  = mockResp.statistics.r2_score * Discount(tier)
        /\ mockResp.recommendation.confidence <= mockResp.statistics.r2_score

-----------------------------------------------------------------------------
(***************************************************************************)
(* Properties of predictPrices (SpecPredict, SpecTwice).                   *)
(***************************************************************************)

\* C7: every predicted price is greater than 0.
C7_PositivePrices ==
    \A i \in 1..Len(predictions) : predictions[i].price > 0

\* C8: under an increasing trend a later month's predicted price is never
\* below an earlier month's, and under a decreasing trend never above it.
C8_Monotonic ==
    \A i \in 1..Len(predictions) : \A j \in (i + 1)..Len(predictions) :
        /\ ppArgs.trend = "increasing" => predictions[j].price >= predictions[i].price
        /\ ppArgs.trend = "decreasing" => predictions[j].price <= predictions[i].price

\* An increasing trend under the lowest draws, whose last prediction is above the first.
C8_Witness ==
    /\ ppArgs.trend = "increasing"
    /\ Len(predictions) = Months
    /\ predictions = PredictPricesWith(ppArgs.currentPrice, "increasing", [i \in 1..Months |-> 0])
    /\ predictions[Months].price > predictions[1].price

\* C9: two calls on the same arguments return the same predictions.
C9_Deterministic ==
    predictions # NotRun /\ predictionsAgain # NotRun => predictionsAgain = predictions

-----------------------------------------------------------------------------
(***************************************************************************)
(* Properties of handleAnalyze (Spec).                                     *)
(***************************************************************************)

\* The input is empty or only white space.
InputIsBlank(v) == v \in {TextInput(""), TextInput("   ")}

\* The front end's validation turns the input down.
FailsValidation(v) ==
    IF mounted = "UIController" THEN IsLikelyUrl(v) /\ ~Parse(v).ok
    ELSE ~IsValidUrl(v)

\* The latest invocation's input was blank or failed validation.
LastWasInvalid ==
    /\ last.id # 0
    /\ (InputIsBlank(last.input) \/ FailsValidation(last.input))

\* C10 as stated: an invocation on a blank or invalid input ends in an error
\* with no fetch and without setLoading(true).
C10_NoFetchNoLoading ==
    LastWasInvalid =>
        /\ last.rejected
        /\ last.fetches = 0
        /\ last.setLoadingTrue = 0

\* C10 as amended: an invocation on a blank or invalid input ends in an error
\* with no fetch and nothing left in flight; setLoading(true) is not called
\* for a blank input, nor by PricePredictorApp for an invalid one, and is
\* called once by UIController for a URL that fails to parse.
C10_NoFetch ==
    LastWasInvalid =>
        /\ last.rejected
        /\ last.fetches = 0
        /\ \A r \in inflight : r.id # last.id
        /\ last.setLoadingTrue =
              IF InputIsBlank(last.input) \/ mounted = "PricePredictorApp" THEN 0 ELSE 1

\* UIController turned down a URL of an unsupported host, after setLoading(true).
C10_Witness ==
    /\ mounted = "UIController"
    /\ last.id # 0
    /\ ~InputIsBlank(last.input)
    /\ FailsValidation(last.input)
    /\ last.rejected
    /\ last.setLoadingTrue = 1
    /\ errorShown
    /\ errorText = MsgInvalid

\* C14: what the page shows when an analysis completes is what it shows when
\* that analysis runs with no other in flight: after a response, its results
\* and no error; after a failure, the error and no results.
C14_NoSharedState ==
    lastDone.id # 0 =>
        IF lastDone.ok
          THEN /\ ~lastDone.errorShown
               /\ lastDone.resultsShown
               /\ lastDone.shownOf = lastDone.id
          ELSE /\ lastDone.errorShown
               /\ ~lastDone.resultsShown

\* The message a failure carries: the response's, the default when the
\* response has none, the thrown error's otherwise.
OwnMessage(f) == IF f.message # "" THEN f.message ELSE MsgApiDefault

C21_OneInFlight ==
    /\ Cardinality(inflight) <= 1
    /\ inflight # {} => loading

\* C22: when analyses overlap, the results of an earlier-started analysis
\* never replace the displayed results of a later-started one.
C22_NewestWins ==
    [][(shown # NoData /\ shown' # NoData) => shown'.of >= shown.of]_vars

\* C23: in PricePredictorApp a non-empty error implies that result is null,
\* in every reachable state.
C23_ErrorExcludesResult ==
    mounted = "PricePredictorApp" => (errorText # "" => shown = NoData)

\* C24: in UIController, whenever the error message is visible the
\* product-info and results sections are hidden.
C24_ErrorHidesSections ==
    (mounted = "UIController" /\ errorShown) => (~productInfoShown /\ ~resultsShown)

\* The analysis with this id is awaiting its response.
InFlight(id) == \E r \in inflight : r.id = id

\* C25: every handleAnalyze invocation that enters the loading state leaves
\* it: the pending analysis ends, and the loading flag is cleared, whether
\* the analysis succeeds, the URL does not parse, or the API fails.
C25_LoadingEnds ==
    /\ \A id \in 1..MaxInvocations : InFlight(id) ~> ~InFlight(id)
    /\ loading ~> ~loading
    /\ [](last.setLoadingTrue = 1 /\ inflight = {} => ~loading)

\* An analysis that had set the loading flag has ended, and the flag is clear.
C25_Witness ==
    /\ lastDone.id # 0
    /\ last.setLoadingTrue = 1
    /\ inflight = {}
    /\ ~loading

-----------------------------------------------------------------------------
(***************************************************************************)
(* Properties of ProductURLParser.parse (SpecParse).                       *)
(***************************************************************************)

OnAmazon(v)   == v.host \in {"www.amazon.in", "amzn.in"}
OnFlipkart(v) == v.host \in {"www.flipkart.com", "dl.flipkart.com"}

\* The URL is well formed: it has a scheme and a host.
WellFormed(v) == v.scheme # "" /\ v.host # ""

\* Some segment of the path is x.
HasSegment(v, x) == \E i \in 1..Len(v.path) : v.path[i] = x

\* The path does not end in a slash.
LastSegmentNotEmpty(v) == Len(v.path) > 1 /\ v.path[Len(v.path)] # ""

\* The link carries something parse takes for a product: a marker segment
\* (dp or product, d on amzn.in; p or s on Flipkart) with a segment after
\* it, the query parameter asin (Amazon) or pid (Flipkart), or a path that
\* does not end in a slash.
HasProductInfo(v) ==
    \/ LastSegmentNotEmpty(v)
    \/ /\ OnAmazon(v)
       /\ \/ \E i \in 1..(Len(v.path) - 1) : v.path[i] \in {"dp", "product"}
          \/ v.host = "amzn.in" /\ \E i \in 1..(Len(v.path) - 1) : v.path[i] = "d"
          \/ v.asin \notin {Null, ""}
    \/ /\ OnFlipkart(v)
       /\ \/ \E i \in 1..(Len(v.path) - 1) : v.path[i] \in {"p", "s"}
          \/ v.pid \notin {Null, ""}

\* C20 as stated: parse returns a descriptor for every well-formed URL on an
\* Amazon or Flipkart host.
C20_ParseAnyLink ==
    parsed.done /\ WellFormed(parseArg) /\ (OnAmazon(parseArg) \/ OnFlipkart(parseArg)) =>
        parsed.result.ok

\* C20 as amended: for a well-formed URL on an Amazon or Flipkart host,
\* parse returns a descriptor of that source and URL when the link carries
\* product information, and throws its 'Invalid URL format' error when it
\* carries none.
C20_ParseProductLink ==
    parsed.done /\ WellFormed(parseArg) /\ (OnAmazon(parseArg) \/ OnFlipkart(parseArg)) =>
        IF HasProductInfo(parseArg)
          THEN /\ parsed.result.ok
               /\ parsed.result.source = IF OnAmazon(parseArg) THEN "amazon" ELSE "flipkart"
               /\ parsed.result.url = parseArg
               /\ parsed.result.productName # ""
          ELSE /\ ~parsed.result.ok
               /\ parsed.result.message = MsgInvalid

\* The product page of an Amazon listing, parsed.
C20_Witness ==
    /\ parsed.done
    /\ parseArg.host = "www.amazon.in"
    /\ parseArg.path = <<"", "Apple-iPhone-15", "dp", "B0CX23V2ZK">>
    /\ parsed.result.ok
    /\ parsed.result.source = "amazon"
    /\ parsed.result.productId = "B0CX23V2ZK"
    /\ parsed.result.productName = "Apple IPhone 15"

\* The messages thrown inside parse's try block.
InnerMessages == {"Invalid URL", MsgAmazon, MsgFlipkart, MsgHost}

\* C26: every failure of ProductURLParser.parse reaches the caller with the
\* single message 'Invalid URL format. Please enter a valid Amazon, Flipkart,
\* or Myntra product link.'; the messages thrown inside are never observed.
C26_OneParseMessage ==
    (parsed.done /\ ~parsed.result.ok) =>
        /\ parsed.result.message = MsgInvalid
        /\ parsed.result.message \notin InnerMessages

\* A link of another site, turned down inside with the host message.
C26_Witness ==
    /\ parsed.done
    /\ parseArg.host = "www.example.com"
    /\ ParseInner(parseArg).message = MsgHost
    /\ ~parsed.result.ok
    /\ parsed.result.message = MsgInvalid

\* C27: every descriptor a successful parse returns has a productId that is
\* not empty.
C27_ProductIdNotEmpty ==
    (parsed.done /\ parsed.result.ok) => parsed.result.productId # ""

=============================================================================
